---- MODULE Spec2Model ----
(***************************************************************************)
(* Buffer pool core of hanxi19/bustub: the LRU-K replacer, the extendible  *)
(* hash table and the buffer pool manager instance that coordinates them.  *)
(*                                                                         *)
(* Three specifications share the module:                                  *)
(*   Spec      the buffer pool manager driven through its public methods   *)
(*             (its page table is the extendible hash table, its replacer  *)
(*             the LRU-K replacer);                                        *)
(*   SpecRepl  the LRU-K replacer driven directly;                         *)
(*   SpecHT    the extendible hash table driven directly, next to a        *)
(*             reference map.                                              *)
(***************************************************************************)
EXTENDS Integers, Sequences, FiniteSets, TLC

(***************************************************************************)
(* Bounds of the model.                                                    *)
(***************************************************************************)
\* RecordAccess is not called once current_timestamp_ has reached this value.
MaxTimestamp == 4
\* Page ids handed to the public methods range over 0..MaxPageId (FlushPgImp
\* is also handed INVALID_PAGE_ID); NewPgImp is not called once next_page_id_
\* has passed MaxPageId.
MaxPageId == 2
\* SpecRepl constructs the replacer with some k in 1..MaxK and stops calling
\* RecordAccess once current_timestamp_ has reached MaxReplTimestamp.
MaxK == 2
MaxReplTimestamp == 5
\* Keys of SpecHT range over INVALID_PAGE_ID..MaxKey, values over 0..MaxValue.
MaxKey == 4
MaxValue == 1
\* SpecHT performs at most MaxHTOps calls.
MaxHTOps == 5
\* SpecConc and SpecLocks run NumThreads threads, which make at most
\* MaxConcOps calls altogether in SpecConc and MaxLockOps in SpecLocks.
NumThreads == 2
MaxConcOps == 6
MaxLockOps == 4

(***************************************************************************)
(* Program constants and construction parameters.                          *)
(***************************************************************************)
INVALID_PAGE_ID == -1
INVALID_FRAME_ID == -1
\* std::numeric_limits<size_t>::max(); only ever compared with differences of
\* timestamps, which stay far below it.
SIZE_MAX == 2147483647
\* pool_size of the constructor: frames are 0..pool_size_-1.
pool_size_ == 2
\* bucket capacity of the page table.
bucket_size_ == 2
\* replacer_k of the constructor.
replacer_k == 2
\* num_frames of the replacer that SpecRepl constructs.
repl_frames == 3

Frames == 0 .. (pool_size_ - 1)
PageIds == 0 .. MaxPageId
\* A page's payload is abstracted to one byte value; ResetMemory zeroes it.
Data == {0, 1}
\* The pages whose payload callers modify through a pinned handle.
WrittenPages == {0}

\* Iteration orders of an unordered container holding the elements of S.
Orders(S) ==
  {s \in [1 .. Cardinality(S) -> S] : \A i, j \in 1 .. Cardinality(S) : s[i] = s[j] => i = j}

\* f without the key x (erase of a map entry).
Erase(f, x) == [y \in (DOMAIN f) \ {x} |-> f[y]]

\* s without its i-th element (erase of a list element).
EraseAt(s, i) == SubSeq(s, 1, i - 1) \o SubSeq(s, i + 1, Len(s))

Pow2(n) == 2 ^ n

VARIABLES
  pages_,          \* frame -> [page_id_, pin_count_, is_dirty_, data_]
  free_list_,      \* sequence of frame ids
  page_table_,     \* the extendible hash table page id -> frame id
  replacer_,       \* the LRU-K replacer
  next_page_id_,   \* AllocatePage's counter
  disk,            \* page id -> payload on disk
  last,            \* the last public call: operation, arguments, result, disk I/O
  abort,           \* a BUSTUB_ASSERT has failed: the process is gone
  ht,              \* SpecHT: the extendible hash table under test
  ref,             \* SpecHT: the reference map
  ht_last,         \* SpecHT: the last call and its result
  ht_ops,          \* SpecHT: number of calls made
  hist,            \* SpecRepl: frame -> every access time since its record was created
  accessed,        \* the frames the pool has ever passed to RecordAccess
  ins,             \* SpecIns: the Insert call in progress on ht, at its loop's position
  bpm_latch_,      \* SpecConc: the thread that owns the pool's latch_, or NoThread
  table_latch_,    \* SpecConc: the owner of the page table's latch_
  replacer_latch_, \* SpecConc: the owner of the replacer's latch_
  th,              \* SpecConc: thread -> the call it is in
  handles,         \* SpecConc: the Page* handles the threads hold
  conc_ops         \* SpecConc: number of calls the threads have made

vars == <<pages_, free_list_, page_table_, replacer_, next_page_id_, disk, last, abort,
          ht, ref, ht_last, ht_ops, hist, accessed, ins,
          bpm_latch_, table_latch_, replacer_latch_, th, handles, conc_ops>>
bpm_vars == <<pages_, free_list_, page_table_, next_page_id_, disk>>
ht_vars == <<ht, ref, ht_last, ht_ops>>
\* what the buffer pool's methods leave alone
\* what only the stepwise specifications change
ext_vars == <<ins, bpm_latch_, table_latch_, replacer_latch_, th, handles, conc_ops>>
others == <<ht, ref, ht_last, ht_ops, hist, ext_vars>>

(***************************************************************************)
(* LRU-K replacer.  A replacer value is the record                         *)
(*   [frame_map_, current_timestamp_, curr_size_, replacer_size_, k_]      *)
(* where frame_map_ maps the frame ids that have a record to               *)
(*   [access_timestamps, evictable].                                       *)
(***************************************************************************)
NewReplacer(num_frames, k) ==
  [frame_map_ |-> <<>>, current_timestamp_ |-> 0, curr_size_ |-> 0,
   replacer_size_ |-> num_frames, k_ |-> k]

\* A FrameInfo whose evictable member starts true.
FrameInfoStartsEvictable == [access_timestamps |-> <<>>, evictable |-> TRUE]

\* FrameInfo(): no timestamps, not evictable.
FrameInfo == [access_timestamps |-> <<>>, evictable |-> FALSE]

\* The range assertion of RecordAccess, SetEvictable and Remove.  frame_id is
\* an int compared with a size_t, so a negative id converts to a huge value.
FrameIdInRange(r, frame_id) == frame_id >= 0 /\ frame_id < r.replacer_size_

\* One iteration of Evict's loop over frame_map_, for the entry of fid.
\* st = [victim_fid, max_backward_dist, earliest_first_ts].
EvictVisit(r, st, fid) ==
  LET finfo == r.frame_map_[fid]
      ts_list == finfo.access_timestamps
  IN IF ~finfo.evictable THEN st
     ELSE IF Len(ts_list) < r.k_
       THEN LET backward_dist == SIZE_MAX
                first_ts == Head(ts_list)
            IN IF backward_dist > st.max_backward_dist
                 THEN [victim_fid |-> fid, max_backward_dist |-> backward_dist,
                       earliest_first_ts |-> first_ts]
                 ELSE IF backward_dist = st.max_backward_dist /\ first_ts < st.earliest_first_ts
                   THEN [st EXCEPT !.victim_fid = fid, !.earliest_first_ts = first_ts]
                   ELSE st
       ELSE LET kth_ts == Head(ts_list)
                backward_dist == r.current_timestamp_ - kth_ts
            IN IF backward_dist > st.max_backward_dist
                 THEN [st EXCEPT !.victim_fid = fid, !.max_backward_dist = backward_dist]
                 ELSE st

\* Evict's loop, visiting the entries of frame_map_ in the given order.
RECURSIVE EvictScan(_, _, _, _)
EvictScan(r, order, i, st) ==
  IF i > Len(order) THEN st
  ELSE EvictScan(r, order, i + 1, EvictVisit(r, st, order[i]))

EvictVictim(r, order) ==
  EvictScan(r, order, 1,
            [victim_fid |-> INVALID_FRAME_ID, max_backward_dist |-> 0,
             earliest_first_ts |-> SIZE_MAX]).victim_fid

\* The assertion at the end of Evict's loop.
EvictAssertOK(r, order) ==
  r.curr_size_ = 0 \/ EvictVictim(r, order) # INVALID_FRAME_ID

\* Evict: [ok, frame_id, r], r the replacer afterwards.
Evict(r, order) ==
  IF r.curr_size_ = 0
    THEN [ok |-> FALSE, frame_id |-> INVALID_FRAME_ID, r |-> r]
    ELSE LET victim_fid == EvictVictim(r, order)
         IN [ok |-> TRUE, frame_id |-> victim_fid,
             r |-> [r EXCEPT !.frame_map_ = Erase(@, victim_fid),
                             !.curr_size_ = @ - 1]]

\* RecordAccess that never drops the oldest timestamp.
RecordAccessKeepsAll(r, frame_id) ==
  LET old == IF frame_id \in DOMAIN r.frame_map_ THEN r.frame_map_[frame_id] ELSE FrameInfo
  IN [r EXCEPT !.frame_map_ = [f \in (DOMAIN @) \cup {frame_id} |->
                                  IF f = frame_id
                                    THEN [old EXCEPT !.access_timestamps =
                                            Append(@, r.current_timestamp_)]
                                    ELSE @[f]],
               !.current_timestamp_ = @ + 1]

\* RecordAccess, for a frame id in range.
RecordAccess(r, frame_id) ==
  LET old == IF frame_id \in DOMAIN r.frame_map_ THEN r.frame_map_[frame_id] ELSE FrameInfo
      pushed == Append(old.access_timestamps, r.current_timestamp_)
      kept == IF Len(pushed) > r.k_ THEN Tail(pushed) ELSE pushed
      frame_info == [old EXCEPT !.access_timestamps = kept]
  IN [r EXCEPT !.frame_map_ = [f \in (DOMAIN @) \cup {frame_id} |->
                                  IF f = frame_id THEN frame_info ELSE @[f]],
               !.current_timestamp_ = @ + 1]

\* SetEvictable without the early return on an unchanged flag.
SetEvictableCountsAlways(r, frame_id, set_evictable) ==
  IF frame_id \notin DOMAIN r.frame_map_ THEN r
  ELSE [r EXCEPT !.curr_size_ = IF set_evictable THEN @ + 1 ELSE @ - 1,
                 !.frame_map_[frame_id].evictable = set_evictable]

\* SetEvictable, for a frame id in range.
SetEvictable(r, frame_id, set_evictable) ==
  IF frame_id \notin DOMAIN r.frame_map_ THEN r
  ELSE IF r.frame_map_[frame_id].evictable = set_evictable THEN r
  ELSE [r EXCEPT !.curr_size_ = IF set_evictable THEN @ + 1 ELSE @ - 1,
                 !.frame_map_[frame_id].evictable = set_evictable]

\* The assertion of Remove: only an evictable frame is removed.
RemoveAssertOK(r, frame_id) ==
  frame_id \in DOMAIN r.frame_map_ => r.frame_map_[frame_id].evictable

\* Remove that lowers the count but forgets frame_map_.erase(it).
RemoveKeepsRecord(r, frame_id) ==
  IF frame_id \notin DOMAIN r.frame_map_ THEN r
  ELSE [r EXCEPT !.curr_size_ = @ - 1]

\* Remove, for a frame id in range whose record, if any, is evictable.
Remove(r, frame_id) ==
  IF frame_id \notin DOMAIN r.frame_map_ THEN r
  ELSE [r EXCEPT !.curr_size_ = @ - 1, !.frame_map_ = Erase(@, frame_id)]

\* Size.
Size(r) == r.curr_size_

(***************************************************************************)
(* Extendible hash table.  A table value is the record                     *)
(*   [hash_, global_depth_, bucket_size_, num_buckets_, dir_, buckets]     *)
(* hash_ names std::hash<K> of the instantiation;                          *)
(* dir_ is the directory (dir_[i] of the code is dir_[i + 1] here) of      *)
(* bucket handles; a handle is the index of the bucket in buckets, the     *)
(* heap of Bucket objects in allocation order.  A bucket is                *)
(*   [local_depth_, kv_pairs_], kv_pairs_ the list of <<key, value>>.      *)
(***************************************************************************)
NewBucket(local_depth) == [local_depth_ |-> local_depth, kv_pairs_ |-> <<>>]

ExtendibleHashTable(bucket_size) ==
  [hash_ |-> "int", global_depth_ |-> 0, bucket_size_ |-> bucket_size, num_buckets_ |-> 1,
   dir_ |-> <<1>>, buckets |-> <<NewBucket(0)>>]

\* std::hash<K>()(key).  std::hash<int> ("int") is the identity on the value
\* converted to size_t; "constant" stands for a key type all of whose keys
\* hash to the same value.
HashOf(t, key) == IF t.hash_ = "constant" THEN 0 ELSE key

\* Only the low global_depth_ bits of the hash are used: -1 has all of them set.
IndexOf(t, key) == HashOf(t, key) % Pow2(t.global_depth_)

\* Position of key in the list, 0 when absent.
BucketPos(bucket, key) ==
  LET hits == {i \in 1 .. Len(bucket.kv_pairs_) : bucket.kv_pairs_[i][1] = key}
  IN IF hits = {} THEN 0 ELSE CHOOSE i \in hits : \A j \in hits : i <= j

BucketFind(bucket, key) ==
  LET i == BucketPos(bucket, key)
  IN IF i = 0 THEN [found |-> FALSE, value |-> 0]
     ELSE [found |-> TRUE, value |-> bucket.kv_pairs_[i][2]]

BucketRemove(bucket, key) ==
  LET i == BucketPos(bucket, key)
  IN IF i = 0 THEN [ok |-> FALSE, bucket |-> bucket]
     ELSE [ok |-> TRUE, bucket |-> [bucket EXCEPT !.kv_pairs_ = EraseAt(@, i)]]

\* IsFull that reports a bucket full only past its capacity.
IsFullOneLate(bucket, max_size) == Len(bucket.kv_pairs_) > max_size

IsFull(bucket, max_size) == Len(bucket.kv_pairs_) >= max_size

BucketInsert(bucket, max_size, key, value) ==
  LET i == BucketPos(bucket, key)
  IN IF i # 0
       THEN [ok |-> TRUE, bucket |-> [bucket EXCEPT !.kv_pairs_[i] = <<key, value>>]]
       ELSE IF IsFull(bucket, max_size)
         THEN [ok |-> FALSE, bucket |-> bucket]
         ELSE [ok |-> TRUE, bucket |-> [bucket EXCEPT !.kv_pairs_ = Append(@, <<key, value>>)]]

\* Doubling whose copy loop runs one slot too far: dir_ gets 2n + 1 slots.
DoubleDirectoryOneSlotMore(t, b) ==
  IF t.buckets[b].local_depth_ = t.global_depth_
    THEN [t EXCEPT !.dir_ = @ \o @ \o <<@[1]>>, !.global_depth_ = @ + 1]
    ELSE t

\* Step 1 of SplitBucket: double the directory when the bucket is as deep as it.
DoubleDirectory(t, b) ==
  IF t.buckets[b].local_depth_ = t.global_depth_
    THEN [t EXCEPT !.dir_ = @ \o @, !.global_depth_ = @ + 1]
    ELSE t

\* Step 4 of SplitBucket: the slots of b whose split bit is set go to nb.
RepointSlots(dir, b, nb, split_mask) ==
  [i \in 1 .. Len(dir) |->
     IF dir[i] = b /\ ((i - 1) \div split_mask) % 2 = 1 THEN nb ELSE dir[i]]

\* new_bucket->Insert(key, it->second); it = bucket->kv_pairs_.erase(it);
MovePairDropsIt(t, b, nb, i) == [t EXCEPT !.buckets[b].kv_pairs_ = EraseAt(@, i)]

MovePair(t, b, nb, i) ==
  LET pair == t.buckets[b].kv_pairs_[i]
  IN [t EXCEPT !.buckets[nb] = BucketInsert(@, t.bucket_size_, pair[1], pair[2]).bucket,
               !.buckets[b].kv_pairs_ = EraseAt(@, i)]

\* Step 5 of SplitBucket: walk the list of b from position i; a pair whose
\* slot now references nb is inserted there and erased from b.
RECURSIVE Redistribute(_, _, _, _)
Redistribute(t, b, nb, i) ==
  IF i > Len(t.buckets[b].kv_pairs_) THEN t
  ELSE LET target_index == IndexOf(t, t.buckets[b].kv_pairs_[i][1])
       IN IF t.dir_[target_index + 1] = nb
            THEN Redistribute(MovePair(t, b, nb, i), b, nb, i)
            ELSE Redistribute(t, b, nb, i + 1)

\* split_mask = 1 << new_local_depth: one bit too high.
SplitMaskOneTooHigh(new_local_depth) == Pow2(new_local_depth)

\* Step 4 of SplitBucket: split_mask = 1 << (new_local_depth - 1).
SplitMask(new_local_depth) == Pow2(new_local_depth - 1)

\* Step 3 of SplitBucket: num_buckets_++ for the new bucket.
CountNewBucketForgotten(num_buckets) == num_buckets

CountNewBucket(num_buckets) == num_buckets + 1

SplitBucket(t, b) ==
  LET t1 == DoubleDirectory(t, b)
      new_local_depth == t1.buckets[b].local_depth_ + 1
      nb == Len(t1.buckets) + 1
      split_mask == SplitMask(new_local_depth)
      t2 == [t1 EXCEPT !.buckets = Append([@ EXCEPT ![b].local_depth_ = new_local_depth],
                                          NewBucket(new_local_depth)),
                       !.num_buckets_ = CountNewBucket(@),
                       !.dir_ = RepointSlots(@, b, nb, split_mask)]
  IN Redistribute(t2, b, nb, 1)

Find(t, key) ==
  LET index == IndexOf(t, key)
  IN IF index >= Len(t.dir_) THEN [found |-> FALSE, value |-> 0]
     ELSE BucketFind(t.buckets[t.dir_[index + 1]], key)

\* Remove: [ok, t], t the table afterwards.
HTRemove(t, key) ==
  LET index == IndexOf(t, key)
  IN IF index >= Len(t.dir_) THEN [ok |-> FALSE, t |-> t]
     ELSE LET b == t.dir_[index + 1]
              res == BucketRemove(t.buckets[b], key)
          IN [ok |-> res.ok, t |-> [t EXCEPT !.buckets[b] = res.bucket]]

\* Insert: try the indexed bucket, split it and retry while it is full.
RECURSIVE Insert(_, _, _)
Insert(t, key, value) ==
  LET b == t.dir_[IndexOf(t, key) + 1]
      res == BucketInsert(t.buckets[b], t.bucket_size_, key, value)
  IN IF res.ok THEN [t EXCEPT !.buckets[b] = res.bucket]
     ELSE Insert(SplitBucket(t, b), key, value)

(***************************************************************************)
(* Disk manager (an external collaborator): a page store.                  *)
(***************************************************************************)
WritePage(d, page_id, data) == [d EXCEPT ![page_id] = data]
ReadPage(d, page_id) == d[page_id]

(***************************************************************************)
(* Buffer pool manager instance.                                           *)
(***************************************************************************)
Page(page_id, pin_count, is_dirty, data) ==
  [page_id_ |-> page_id, pin_count_ |-> pin_count, is_dirty_ |-> is_dirty, data_ |-> data]

\* The record of a public call kept in last: the method, what it returned (the
\* frame of the returned Page*, INVALID_FRAME_ID for nullptr, or the returned
\* bool) and, in order, the disk calls it made (<<"write", page id, payload>>,
\* <<"read", page id, payload>>) and the eviction it caused (<<"evict", page
\* id of the victim, payload of the victim>>).
Call(op, ret, io) == [op |-> op, ret |-> ret, io |-> io]

\* page_table_->Remove(victim_page->GetPageId())
DropVictimKeepsEntry(page_table, page_id) == page_table

DropVictim(page_table, page_id) == HTRemove(page_table, page_id).t

\* The frame search shared by NewPgImp and FetchPgImp: the head of the free
\* list, else an evicted victim, written back when dirty and dropped from the
\* page table.  [ok, frame_id, free_list, replacer, pages, page_table, disk, io]
FindFrame(order) ==
  IF free_list_ # <<>>
    THEN [ok |-> TRUE, frame_id |-> Head(free_list_), free_list |-> Tail(free_list_),
          replacer |-> replacer_, pages |-> pages_, page_table |-> page_table_,
          disk |-> disk, io |-> <<>>]
    ELSE LET ev == Evict(replacer_, order)
         IN IF ev.ok
              THEN LET victim_page == pages_[ev.frame_id]
                       dirty == victim_page.is_dirty_
                   IN [ok |-> TRUE, frame_id |-> ev.frame_id, free_list |-> free_list_,
                       replacer |-> ev.r,
                       pages |-> [pages_ EXCEPT ![ev.frame_id].is_dirty_ = FALSE],
                       page_table |-> DropVictim(page_table_, victim_page.page_id_),
                       disk |-> IF dirty
                                  THEN WritePage(disk, victim_page.page_id_, victim_page.data_)
                                  ELSE disk,
                       io |-> <<<<"evict", victim_page.page_id_, victim_page.data_>>>> \o
                              (IF dirty
                                 THEN <<<<"write", victim_page.page_id_, victim_page.data_>>>>
                                 ELSE <<>>)]
              ELSE [ok |-> FALSE, frame_id |-> INVALID_FRAME_ID, free_list |-> free_list_,
                    replacer |-> replacer_, pages |-> pages_, page_table |-> page_table_,
                    disk |-> disk, io |-> <<>>]

\* The assertions a frame search can trip.
FindFrameAssertOK(order) ==
  free_list_ # <<>> \/ EvictAssertOK(replacer_, order)

\* RecordAccess(frame_id); SetEvictable(frame_id, false)
TouchLeavesEvictable(r, frame_id) == RecordAccess(r, frame_id)

Touch(r, frame_id) == SetEvictable(RecordAccess(r, frame_id), frame_id, FALSE)

\* return nullptr: no frame is free and none can be evicted.
NoFrameAfterAllocate(op) ==
  /\ last' = Call(op, INVALID_FRAME_ID, <<>>)
  /\ next_page_id_' = next_page_id_ + 1
  /\ UNCHANGED <<pages_, free_list_, page_table_, disk, replacer_, abort, accessed>>

NoFrame(op) ==
  /\ last' = Call(op, INVALID_FRAME_ID, <<>>)
  /\ UNCHANGED <<bpm_vars, replacer_, abort, accessed>>

\* return ++next_page_id_: the id after the increment.
AllocatePagePreIncrement == next_page_id_ + 1

\* return next_page_id_++
AllocatePage == next_page_id_

NewPgImp(order) ==
  /\ ~abort
  /\ replacer_.current_timestamp_ < MaxTimestamp
  /\ next_page_id_ <= MaxPageId
  /\ IF ~FindFrameAssertOK(order)
       THEN /\ abort' = TRUE
            /\ UNCHANGED <<bpm_vars, replacer_, last, accessed>>
       ELSE LET ff == FindFrame(order)
                page_id == AllocatePage
            IN IF ~ff.ok
                 THEN NoFrame("NewPage")
                 ELSE /\ next_page_id_' = next_page_id_ + 1
                      /\ free_list_' = ff.free_list
                      /\ disk' = ff.disk
                      /\ pages_' = [ff.pages EXCEPT ![ff.frame_id] =
                                      Page(page_id, 1, FALSE, @.data_)]
                      /\ page_table_' = Insert(ff.page_table, page_id, ff.frame_id)
                      /\ replacer_' = Touch(ff.replacer, ff.frame_id)
                      /\ last' = Call("NewPage", ff.frame_id, ff.io)
                      /\ accessed' = accessed \cup {ff.frame_id}
                      /\ UNCHANGED abort

FetchPgImp(page_id, order) ==
  /\ ~abort
  /\ replacer_.current_timestamp_ < MaxTimestamp
  /\ LET hit == Find(page_table_, page_id)
     IN IF hit.found
          THEN /\ pages_' = [pages_ EXCEPT ![hit.value].pin_count_ = @ + 1]
               /\ replacer_' = Touch(replacer_, hit.value)
               /\ last' = Call("FetchPage", hit.value, <<>>)
               /\ accessed' = accessed \cup {hit.value}
               /\ UNCHANGED <<free_list_, page_table_, next_page_id_, disk, abort>>
          ELSE IF ~FindFrameAssertOK(order)
            THEN /\ abort' = TRUE
                 /\ UNCHANGED <<bpm_vars, replacer_, last, accessed>>
            ELSE LET ff == FindFrame(order)
                 IN IF ~ff.ok
                      THEN NoFrame("FetchPage")
                      ELSE LET data == ReadPage(ff.disk, page_id)
                           IN /\ free_list_' = ff.free_list
                              /\ disk' = ff.disk
                              /\ pages_' = [ff.pages EXCEPT ![ff.frame_id] =
                                              Page(page_id, 1, FALSE, data)]
                              /\ page_table_' = Insert(ff.page_table, page_id, ff.frame_id)
                              /\ replacer_' = Touch(ff.replacer, ff.frame_id)
                              /\ last' = Call("FetchPage", ff.frame_id,
                                              Append(ff.io, <<"read", page_id, data>>))
                              /\ accessed' = accessed \cup {ff.frame_id}
                              /\ UNCHANGED <<next_page_id_, abort>>

\* if (is_dirty) page->is_dirty_ = true;
UnpinDirtyAssigned(was_dirty, is_dirty) == is_dirty

UnpinDirty(was_dirty, is_dirty) == IF is_dirty THEN TRUE ELSE was_dirty

\* if (page->pin_count_ == 0) SetEvictable(frame_id, true)
UnpinReleasesAlways(pin_count) == pin_count >= 0

\* UnpinPgImp without the SetEvictable(frame_id, true) of its last unpin.
UnpinReleasesNever(pin_count) == FALSE

UnpinReleases(pin_count) == pin_count = 0

UnpinPgImp(page_id, is_dirty) ==
  /\ ~abort
  /\ LET hit == Find(page_table_, page_id)
         frame_id == hit.value
     IN IF ~hit.found \/ pages_[frame_id].pin_count_ <= 0
          THEN /\ last' = Call("UnpinPage", FALSE, <<>>)
               /\ UNCHANGED <<bpm_vars, replacer_, abort>>
          ELSE LET pin_count == pages_[frame_id].pin_count_ - 1
               IN /\ pages_' = [pages_ EXCEPT ![frame_id].pin_count_ = pin_count,
                                              ![frame_id].is_dirty_ = UnpinDirty(@, is_dirty)]
                  /\ replacer_' = IF UnpinReleases(pin_count)
                                    THEN SetEvictable(replacer_, frame_id, TRUE)
                                    ELSE replacer_
                  /\ last' = Call("UnpinPage", TRUE, <<>>)
                  /\ UNCHANGED <<free_list_, page_table_, next_page_id_, disk, abort>>
  /\ UNCHANGED accessed

FlushPgImp(page_id) ==
  /\ ~abort
  /\ LET hit == Find(page_table_, page_id)
         frame_id == hit.value
     IN IF page_id = INVALID_PAGE_ID \/ ~hit.found
          THEN /\ last' = Call("FlushPage", FALSE, <<>>)
               /\ UNCHANGED <<bpm_vars, replacer_, abort>>
          ELSE /\ disk' = WritePage(disk, page_id, pages_[frame_id].data_)
               /\ pages_' = [pages_ EXCEPT ![frame_id].is_dirty_ = FALSE]
               /\ last' = Call("FlushPage", TRUE,
                               <<<<"write", page_id, pages_[frame_id].data_>>>>)
               /\ UNCHANGED <<free_list_, page_table_, next_page_id_, replacer_, abort>>
  /\ UNCHANGED accessed

RECURSIVE FlushAllFrom(_, _)
\* The loop without page->is_dirty_ = false.
FlushAllFromKeepsDirty(st, i) ==
  IF i >= pool_size_ THEN st
  ELSE LET page == st.pages[i]
       IN IF page.page_id_ # INVALID_PAGE_ID /\ page.is_dirty_
            THEN FlushAllFrom([pages |-> st.pages,
                               disk |-> WritePage(st.disk, page.page_id_, page.data_),
                               io |-> Append(st.io, <<"write", page.page_id_, page.data_>>)],
                              i + 1)
            ELSE FlushAllFrom(st, i + 1)

\* FlushAllPgsImp's loop from frame i on: [pages, disk, io].
FlushAllFrom(st, i) ==
  IF i >= pool_size_ THEN st
  ELSE LET page == st.pages[i]
       IN IF page.page_id_ # INVALID_PAGE_ID /\ page.is_dirty_
            THEN FlushAllFrom([pages |-> [st.pages EXCEPT ![i].is_dirty_ = FALSE],
                               disk |-> WritePage(st.disk, page.page_id_, page.data_),
                               io |-> Append(st.io, <<"write", page.page_id_, page.data_>>)],
                              i + 1)
            ELSE FlushAllFrom(st, i + 1)

FlushAllPgsImp ==
  /\ ~abort
  /\ LET st == FlushAllFrom([pages |-> pages_, disk |-> disk, io |-> <<>>], 0)
     IN /\ pages_' = st.pages
        /\ disk' = st.disk
        /\ last' = Call("FlushAllPages", TRUE, st.io)
        /\ UNCHANGED <<free_list_, page_table_, next_page_id_, replacer_, abort, accessed>>

\* if (page->pin_count_ > 0) return false;
DeleteBlockedAboveOne(pin_count) == pin_count > 1

DeleteBlocked(pin_count) == pin_count > 0

DeletePgImp(page_id) ==
  /\ ~abort
  /\ LET hit == Find(page_table_, page_id)
         frame_id == hit.value
     IN IF ~hit.found
          THEN /\ last' = Call("DeletePage", TRUE, <<>>)
               /\ UNCHANGED <<bpm_vars, replacer_, abort>>
          ELSE IF DeleteBlocked(pages_[frame_id].pin_count_)
            THEN /\ last' = Call("DeletePage", FALSE, <<>>)
                 /\ UNCHANGED <<bpm_vars, replacer_, abort>>
            ELSE IF ~RemoveAssertOK(replacer_, frame_id)
              THEN \* the page was written back and unmapped before the assertion
                   /\ abort' = TRUE
                   /\ disk' = IF pages_[frame_id].is_dirty_
                                THEN WritePage(disk, page_id, pages_[frame_id].data_)
                                ELSE disk
                   /\ page_table_' = HTRemove(page_table_, page_id).t
                   /\ UNCHANGED <<pages_, free_list_, next_page_id_, replacer_, last>>
              ELSE LET dirty == pages_[frame_id].is_dirty_
                       data == pages_[frame_id].data_
                   IN /\ disk' = IF dirty THEN WritePage(disk, page_id, data) ELSE disk
                      /\ page_table_' = HTRemove(page_table_, page_id).t
                      /\ replacer_' = Remove(replacer_, frame_id)
                      /\ pages_' = [pages_ EXCEPT ![frame_id] = Page(INVALID_PAGE_ID, 0, FALSE, 0)]
                      /\ free_list_' = Append(free_list_, frame_id)
                      /\ last' = Call("DeletePage", TRUE,
                                      IF dirty THEN <<<<"write", page_id, data>>>> ELSE <<>>)
                      /\ UNCHANGED <<next_page_id_, abort>>
  /\ UNCHANGED accessed

\* A caller holding a pinned handle writes its payload through GetData().
WriteData(frame_id, data) ==
  /\ ~abort
  /\ pages_[frame_id].pin_count_ > 0
  /\ pages_[frame_id].page_id_ \in WrittenPages
  /\ pages_[frame_id].data_ # data
  /\ pages_' = [pages_ EXCEPT ![frame_id].data_ = data]
  /\ last' = Call("WriteData", frame_id, <<>>)
  /\ UNCHANGED <<free_list_, page_table_, next_page_id_, disk, replacer_, abort, accessed>>

InitBPM ==
  /\ pages_ = [f \in Frames |-> Page(INVALID_PAGE_ID, 0, FALSE, 0)]
  /\ free_list_ = [i \in 1 .. pool_size_ |-> i - 1]
  /\ page_table_ = ExtendibleHashTable(bucket_size_)
  /\ next_page_id_ = 0
  /\ disk = [p \in PageIds |-> 0]
  /\ last = Call("Init", FALSE, <<>>)
  /\ abort = FALSE
  /\ accessed = {}

\* No thread owns a latch and no thread is inside a method of the pool.
NoThread == 0
Threads == 1 .. NumThreads

ThIdle ==
  [op |-> "none", page_id |-> INVALID_PAGE_ID, is_dirty |-> FALSE, pc |-> "idle",
   frame_id |-> INVALID_FRAME_ID, page |-> INVALID_FRAME_ID, ret |-> FALSE]

InitConc ==
  /\ bpm_latch_ = NoThread
  /\ table_latch_ = NoThread
  /\ replacer_latch_ = NoThread
  /\ th = [t \in Threads |-> ThIdle]
  /\ handles = {}
  /\ conc_ops = 0

\* No Insert call is in progress.
InsIdle == [pc |-> "idle", key |-> 0, value |-> 0, splits |-> 0]

InitHT ==
  /\ ht = ExtendibleHashTable(bucket_size_)
  /\ ref = <<>>
  /\ ht_last = [op |-> "Init", key |-> 0, value |-> 0, ret |-> FALSE]
  /\ ht_ops = 0
  /\ ins = InsIdle
  /\ InitConc

Init ==
  /\ InitBPM
  /\ replacer_ = NewReplacer(pool_size_, replacer_k)
  /\ InitHT
  /\ hist = <<>>

Next ==
  \/ \E order \in Orders(DOMAIN replacer_.frame_map_) : NewPgImp(order) /\ UNCHANGED others
  \/ \E page_id \in PageIds, order \in Orders(DOMAIN replacer_.frame_map_) :
       FetchPgImp(page_id, order) /\ UNCHANGED others
  \/ \E page_id \in PageIds, is_dirty \in BOOLEAN :
       UnpinPgImp(page_id, is_dirty) /\ UNCHANGED others
  \/ \E page_id \in PageIds \cup {INVALID_PAGE_ID} : FlushPgImp(page_id) /\ UNCHANGED others
  \/ FlushAllPgsImp /\ UNCHANGED others
  \/ \E page_id \in PageIds : DeletePgImp(page_id) /\ UNCHANGED others
  \/ \E frame_id \in Frames, data \in Data \ {0} : WriteData(frame_id, data) /\ UNCHANGED others

Spec == Init /\ [][Next]_vars

(***************************************************************************)
(* SpecRepl: the replacer's public methods called directly.  hist keeps,   *)
(* for every frame that has a record, all its access times since the      *)
(* record was created (the replacer itself keeps the last k_).             *)
(***************************************************************************)
ReplFrameArgs == 0 .. repl_frames

ReplRecordAccess(frame_id) ==
  /\ ~abort
  /\ replacer_.current_timestamp_ < MaxReplTimestamp
  /\ IF ~FrameIdInRange(replacer_, frame_id)
       THEN abort' = TRUE /\ UNCHANGED <<replacer_, last, hist>>
       ELSE /\ replacer_' = RecordAccess(replacer_, frame_id)
            /\ hist' = [f \in (DOMAIN hist) \cup {frame_id} |->
                          IF f = frame_id
                            THEN Append(IF f \in DOMAIN hist THEN hist[f] ELSE <<>>,
                                        replacer_.current_timestamp_)
                            ELSE hist[f]]
            /\ last' = Call("RecordAccess", TRUE, <<>>)
            /\ UNCHANGED abort
  /\ UNCHANGED <<bpm_vars, ht_vars, accessed, ext_vars>>

ReplSetEvictable(frame_id, set_evictable) ==
  /\ ~abort
  /\ IF ~FrameIdInRange(replacer_, frame_id)
       THEN abort' = TRUE /\ UNCHANGED <<replacer_, last>>
       ELSE /\ replacer_' = SetEvictable(replacer_, frame_id, set_evictable)
            /\ last' = Call("SetEvictable", TRUE, <<>>)
            /\ UNCHANGED abort
  /\ UNCHANGED <<bpm_vars, ht_vars, hist, accessed, ext_vars>>

ReplRemove(frame_id) ==
  /\ ~abort
  /\ IF ~FrameIdInRange(replacer_, frame_id) \/ ~RemoveAssertOK(replacer_, frame_id)
       THEN abort' = TRUE /\ UNCHANGED <<replacer_, last, hist>>
       ELSE /\ replacer_' = Remove(replacer_, frame_id)
            /\ hist' = Erase(hist, frame_id)
            /\ last' = Call("Remove", TRUE, <<>>)
            /\ UNCHANGED abort
  /\ UNCHANGED <<bpm_vars, ht_vars, accessed, ext_vars>>

ReplEvict(order) ==
  /\ ~abort
  /\ IF ~EvictAssertOK(replacer_, order)
       THEN abort' = TRUE /\ UNCHANGED <<replacer_, last, hist>>
       ELSE LET ev == Evict(replacer_, order)
            IN /\ replacer_' = ev.r
               /\ hist' = Erase(hist, ev.frame_id)
               /\ last' = Call("Evict", ev.frame_id, <<>>)
               /\ UNCHANGED abort
  /\ UNCHANGED <<bpm_vars, ht_vars, accessed, ext_vars>>

InitRepl ==
  /\ InitBPM
  /\ InitHT
  /\ \E k \in 1 .. MaxK : replacer_ = NewReplacer(repl_frames, k)
  /\ hist = <<>>

NextRepl ==
  \/ \E frame_id \in ReplFrameArgs : ReplRecordAccess(frame_id)
  \/ \E frame_id \in ReplFrameArgs, set_evictable \in BOOLEAN :
       ReplSetEvictable(frame_id, set_evictable)
  \/ \E frame_id \in ReplFrameArgs : ReplRemove(frame_id)
  \/ \E order \in Orders(DOMAIN replacer_.frame_map_) : ReplEvict(order)

SpecRepl == InitRepl /\ [][NextRepl]_vars

(***************************************************************************)
(* SpecHT: the hash table's public methods called directly, next to a      *)
(* reference map ref (key -> value, on the keys present).                  *)
(***************************************************************************)
Keys == INVALID_PAGE_ID .. MaxKey
Values == 0 .. MaxValue

HTInsertCall(key, value) ==
  /\ ht_ops < MaxHTOps
  /\ ht' = Insert(ht, key, value)
  /\ ref' = [k \in (DOMAIN ref) \cup {key} |-> IF k = key THEN value ELSE ref[k]]
  /\ ht_last' = [op |-> "Insert", key |-> key, value |-> value, ret |-> TRUE]
  /\ ht_ops' = ht_ops + 1
  /\ UNCHANGED <<bpm_vars, replacer_, last, abort, hist, accessed, ext_vars>>

HTRemoveCall(key) ==
  /\ ht_ops < MaxHTOps
  /\ LET res == HTRemove(ht, key)
     IN /\ ht' = res.t
        /\ ht_last' = [op |-> "Remove", key |-> key, value |-> 0, ret |-> res.ok]
  /\ ref' = Erase(ref, key)
  /\ ht_ops' = ht_ops + 1
  /\ UNCHANGED <<bpm_vars, replacer_, last, abort, hist, accessed, ext_vars>>

HTFindCall(key) ==
  /\ ht_ops < MaxHTOps
  /\ LET res == Find(ht, key)
     IN ht_last' = [op |-> "Find", key |-> key, value |-> res.value, ret |-> res.found]
  /\ ht_ops' = ht_ops + 1
  /\ UNCHANGED <<bpm_vars, replacer_, last, abort, hist, accessed, ht, ref, ext_vars>>

NextHT ==
  \/ \E key \in Keys, value \in Values : HTInsertCall(key, value)
  \/ \E key \in Keys : HTRemoveCall(key)
  \/ \E key \in Keys : HTFindCall(key)

SpecHT == Init /\ [][NextHT]_vars

(***************************************************************************)
(* SpecIns: Insert on the table ht, one step per iteration of its loop.    *)
(* ins = [pc, key, value, splits]: pc is "try" before target_bucket->Insert,*)
(* "split" before SplitBucket, "done" after the break; splits counts the   *)
(* calls of SplitBucket of this Insert.  The table is instantiated with    *)
(* std::hash<int> or with a key type whose hashes are all the same.        *)
(***************************************************************************)
\* The number of low bits within which the hashes of the keys of Keys differ.
HashBits ==
  CHOOSE w \in 0 .. MaxKey + 2 :
    /\ \A j, k \in INVALID_PAGE_ID .. MaxKey : j # k => j % Pow2(w) # k % Pow2(w)
    /\ \A v \in 0 .. w - 1 :
         \E j, k \in INVALID_PAGE_ID .. MaxKey : j # k /\ j % Pow2(v) = k % Pow2(v)

\* The model follows an Insert for this many splits.
MaxSplits == HashBits + 2

\* A caller enters Insert(key, value).
InsertCall(key, value) ==
  /\ ins.pc \in {"idle", "done"}
  /\ ht_ops < MaxHTOps
  /\ ins' = [pc |-> "try", key |-> key, value |-> value, splits |-> 0]
  /\ ht_ops' = ht_ops + 1
  /\ UNCHANGED <<bpm_vars, replacer_, last, abort, hist, accessed, ht, ref, ht_last>>
  /\ UNCHANGED <<bpm_latch_, table_latch_, replacer_latch_, th, handles, conc_ops>>

\* target_bucket->Insert(key, value): break when it succeeds.
InsertTry ==
  /\ ins.pc = "try"
  /\ LET b == ht.dir_[IndexOf(ht, ins.key) + 1]
         res == BucketInsert(ht.buckets[b], ht.bucket_size_, ins.key, ins.value)
     IN IF res.ok
          THEN /\ ht' = [ht EXCEPT !.buckets[b] = res.bucket]
               /\ ref' = [k \in (DOMAIN ref) \cup {ins.key} |->
                            IF k = ins.key THEN ins.value ELSE ref[k]]
               /\ ht_last' = [op |-> "Insert", key |-> ins.key, value |-> ins.value,
                              ret |-> TRUE]
               /\ ins' = [ins EXCEPT !.pc = "done"]
          ELSE /\ ins' = [ins EXCEPT !.pc = "split"]
               /\ UNCHANGED <<ht, ref, ht_last>>
  /\ UNCHANGED <<bpm_vars, replacer_, last, abort, hist, accessed, ht_ops>>
  /\ UNCHANGED <<bpm_latch_, table_latch_, replacer_latch_, th, handles, conc_ops>>

\* SplitBucket(target_bucket), then the loop starts over.
InsertSplit ==
  /\ ins.pc = "split"
  /\ ins.splits < MaxSplits
  /\ ht' = SplitBucket(ht, ht.dir_[IndexOf(ht, ins.key) + 1])
  /\ ins' = [ins EXCEPT !.pc = "try", !.splits = @ + 1]
  /\ UNCHANGED <<bpm_vars, replacer_, last, abort, hist, accessed, ref, ht_last, ht_ops>>
  /\ UNCHANGED <<bpm_latch_, table_latch_, replacer_latch_, th, handles, conc_ops>>

InitIns ==
  /\ InitBPM
  /\ replacer_ = NewReplacer(pool_size_, replacer_k)
  /\ hist = <<>>
  /\ \E h \in {"int", "constant"} : ht = [ExtendibleHashTable(bucket_size_) EXCEPT !.hash_ = h]
  /\ ref = <<>>
  /\ ht_last = [op |-> "Init", key |-> 0, value |-> 0, ret |-> FALSE]
  /\ ht_ops = 0
  /\ ins = InsIdle
  /\ InitConc

NextIns ==
  \/ \E key \in INVALID_PAGE_ID .. MaxKey, value \in 0 .. MaxValue : InsertCall(key, value)
  \/ InsertTry
  \/ InsertSplit

\* The thread inside Insert keeps running.
SpecIns == InitIns /\ [][NextIns]_vars /\ WF_vars(InsertTry) /\ WF_vars(InsertSplit)

(***************************************************************************)
(* SpecConc and SpecLocks: threads calling the pool's methods.  Every      *)
(* method holds the pool's latch_ from its first line to its return        *)
(* (std::lock_guard), and every method of the page table and of the        *)
(* replacer holds that object's own latch_ for its whole body.  A thread   *)
(* takes one step per lock operation and per group of statements between   *)
(* two calls.  th[t] = [op, page_id, is_dirty, pc, frame_id, page, ret]:   *)
(* the method thread t is in, its arguments, its position, its local frame *)
(* id and the Page* or bool it is about to return.  handles holds          *)
(* <<t, frame, page, method>>                                              *)
(* for every Page* a thread got from FetchPage or NewPage and has not yet  *)
(* given back with UnpinPage.                                              *)
(***************************************************************************)
\* std::mutex::lock returns once no thread owns the mutex.
LatchFree(latch) == latch = NoThread

\* A guard whose mutex stays locked after the method returns.
UnlockForgotten(t) == t

\* The guard's destructor unlocks the mutex at the method's return.
Unlock(t) == NoThread

latches == <<bpm_latch_, table_latch_, replacer_latch_>>
conc_others == <<ht, ref, ht_last, ht_ops, hist, ins>>
\* what no step inside a method changes
conc_fixed == <<last, handles, conc_ops, conc_others>>

\* <<thread, frame, page id, method that returned the handle>>
HandlesOn(f) == {h \in handles : h[2] = f}
HoldsHandle(t, p) == \E h \in handles : h[1] = t /\ h[3] = p

\* The calls made under the page table's latch_ and under the replacer's.
TableCalls == {"f_find", "f_ptrm", "f_ins", "u_find", "d_find", "d_ptrm", "fl_find"}
ReplacerCalls == {"f_evict", "ra", "se", "u_se", "d_rrm"}

At(t, pc) == ~abort /\ th[t].pc = pc
Goto(t, pc) == [th EXCEPT ![t].pc = pc]
\* return of a bool, and of a Page* (the frame of the page; INVALID_FRAME_ID
\* for nullptr)
Return(t, ret) == [th EXCEPT ![t].ret = ret, ![t].pc = "unlock"]
ReturnPage(t, frame_id) == [th EXCEPT ![t].page = frame_id, ![t].pc = "unlock"]

\* Thread t calls a method of the pool.
Enter(t, op, page_id, is_dirty) ==
  /\ At(t, "idle")
  /\ th' = [th EXCEPT ![t] = [ThIdle EXCEPT !.op = op, !.page_id = page_id,
                                           !.is_dirty = is_dirty, !.pc = "lock"]]
  /\ conc_ops' = conc_ops + 1
  /\ UNCHANGED <<bpm_vars, replacer_, abort, accessed, latches, last, handles, conc_others>>

\* A thread fetches a page it holds no handle to, and unpins only a page it
\* holds a handle to.
StartFetch(t, page_id) == ~HoldsHandle(t, page_id) /\ Enter(t, "FetchPage", page_id, FALSE)
StartUnpin(t, page_id, is_dirty) ==
  HoldsHandle(t, page_id) /\ Enter(t, "UnpinPage", page_id, is_dirty)
StartDelete(t, page_id) == Enter(t, "DeletePage", page_id, FALSE)
StartNewPage(t) ==
  next_page_id_ <= MaxPageId /\ Enter(t, "NewPage", INVALID_PAGE_ID, FALSE)
StartFlush(t, page_id) == Enter(t, "FlushPage", page_id, FALSE)
StartFlushAll(t) == Enter(t, "FlushAllPages", INVALID_PAGE_ID, FALSE)

FirstPc(op) ==
  CASE op = "FetchPage" -> "f_find"
    [] op = "UnpinPage" -> "u_find"
    [] op = "DeletePage" -> "d_find"
    [] op = "NewPage" -> "f_frame"
    [] op = "FlushPage" -> "fl_check"
    [] OTHER -> "fa_loop"

\* std::lock_guard<std::mutex> lock(latch_) at the top of every pool method.
LockPool(t) ==
  /\ At(t, "lock")
  /\ LatchFree(bpm_latch_)
  /\ bpm_latch_' = t
  /\ th' = Goto(t, FirstPc(th[t].op))
  /\ UNCHANGED <<bpm_vars, replacer_, abort, accessed, table_latch_, replacer_latch_,
                 conc_fixed>>

\* The lock at the top of the page table's Find, Insert and Remove.
LockTable(t) ==
  /\ ~abort
  /\ th[t].pc \in TableCalls
  /\ table_latch_ # t
  /\ LatchFree(table_latch_)
  /\ table_latch_' = t
  /\ UNCHANGED <<bpm_vars, replacer_, abort, accessed, bpm_latch_, replacer_latch_, th,
                 conc_fixed>>

\* The lock at the top of the replacer's Evict, RecordAccess, SetEvictable
\* and Remove.
LockReplacer(t) ==
  /\ ~abort
  /\ th[t].pc \in ReplacerCalls
  /\ replacer_latch_ # t
  /\ LatchFree(replacer_latch_)
  /\ replacer_latch_' = t
  /\ UNCHANGED <<bpm_vars, replacer_, abort, accessed, bpm_latch_, table_latch_, th,
                 conc_fixed>>

\* What a table call and a replacer call leave alone besides the state they
\* are given.
TableCallFrame == UNCHANGED <<bpm_latch_, replacer_latch_, abort, accessed, conc_fixed>>
ReplacerCallFrame == UNCHANGED <<bpm_latch_, table_latch_, conc_fixed>>
PoolStepFrame == UNCHANGED <<latches, abort, accessed, conc_fixed>>

\* FetchPgImp: page_table_->Find(page_id, frame_id).
FFind(t) ==
  /\ At(t, "f_find")
  /\ table_latch_ = t
  /\ LET hit == Find(page_table_, th[t].page_id)
     IN th' = [th EXCEPT ![t].frame_id = IF hit.found THEN hit.value ELSE INVALID_FRAME_ID,
                         ![t].pc = IF hit.found THEN "f_pin" ELSE "f_frame"]
  /\ table_latch_' = Unlock(t)
  /\ UNCHANGED <<bpm_vars, replacer_>>
  /\ TableCallFrame

\* FetchPgImp, page resident: page->pin_count_++.
FPin(t) ==
  /\ At(t, "f_pin")
  /\ pages_' = [pages_ EXCEPT ![th[t].frame_id].pin_count_ = @ + 1]
  /\ th' = Goto(t, "ra")
  /\ UNCHANGED <<free_list_, page_table_, next_page_id_, disk, replacer_>>
  /\ PoolStepFrame

\* NewPgImp and FetchPgImp: the head of the free list, if there is one.
FFrame(t) ==
  /\ At(t, "f_frame")
  /\ IF free_list_ # <<>>
       THEN /\ free_list_' = Tail(free_list_)
            /\ th' = [th EXCEPT ![t].frame_id = Head(free_list_),
                                ![t].pc = IF th[t].op = "NewPage" THEN "n_init" ELSE "f_read"]
       ELSE /\ th' = Goto(t, "f_evict")
            /\ UNCHANGED free_list_
  /\ UNCHANGED <<pages_, page_table_, next_page_id_, disk, replacer_>>
  /\ PoolStepFrame

\* NewPgImp and FetchPgImp: replacer_->Evict(&frame_id); return nullptr when
\* it fails.
FEvict(t, order) ==
  /\ At(t, "f_evict")
  /\ replacer_latch_ = t
  /\ IF ~EvictAssertOK(replacer_, order)
       THEN abort' = TRUE /\ UNCHANGED <<replacer_, th, replacer_latch_>>
       ELSE LET ev == Evict(replacer_, order)
            IN /\ replacer_' = ev.r
               /\ th' = IF ev.ok
                          THEN [th EXCEPT ![t].frame_id = ev.frame_id, ![t].pc = "f_wb"]
                          ELSE ReturnPage(t, INVALID_FRAME_ID)
               /\ replacer_latch_' = Unlock(t)
               /\ UNCHANGED abort
  /\ UNCHANGED <<bpm_vars, accessed>>
  /\ ReplacerCallFrame

\* NewPgImp and FetchPgImp: write the dirty victim back.
FWriteBack(t) ==
  /\ At(t, "f_wb")
  /\ LET victim_page == pages_[th[t].frame_id]
     IN IF victim_page.is_dirty_
          THEN /\ disk' = WritePage(disk, victim_page.page_id_, victim_page.data_)
               /\ pages_' = [pages_ EXCEPT ![th[t].frame_id].is_dirty_ = FALSE]
          ELSE UNCHANGED <<disk, pages_>>
  /\ th' = Goto(t, "f_ptrm")
  /\ UNCHANGED <<free_list_, page_table_, next_page_id_, replacer_>>
  /\ PoolStepFrame

\* NewPgImp and FetchPgImp: page_table_->Remove(victim_page->GetPageId()).
FTableRemove(t) ==
  /\ At(t, "f_ptrm")
  /\ table_latch_ = t
  /\ page_table_' = DropVictim(page_table_, pages_[th[t].frame_id].page_id_)
  /\ th' = Goto(t, IF th[t].op = "NewPage" THEN "n_init" ELSE "f_read")
  /\ table_latch_' = Unlock(t)
  /\ UNCHANGED <<pages_, free_list_, next_page_id_, disk, replacer_>>
  /\ TableCallFrame

\* FetchPgImp: ReadPage and the page's metadata.
FRead(t) ==
  /\ At(t, "f_read")
  /\ pages_' = [pages_ EXCEPT ![th[t].frame_id] =
                  Page(th[t].page_id, 1, FALSE, ReadPage(disk, th[t].page_id))]
  /\ th' = Goto(t, "f_ins")
  /\ UNCHANGED <<free_list_, page_table_, next_page_id_, disk, replacer_>>
  /\ PoolStepFrame

\* NewPgImp: AllocatePage and the page's metadata.
NInit(t) ==
  /\ At(t, "n_init")
  /\ pages_' = [pages_ EXCEPT ![th[t].frame_id] = Page(AllocatePage, 1, FALSE, @.data_)]
  /\ next_page_id_' = next_page_id_ + 1
  /\ th' = [th EXCEPT ![t].page_id = AllocatePage, ![t].pc = "f_ins"]
  /\ UNCHANGED <<free_list_, page_table_, disk, replacer_>>
  /\ PoolStepFrame

\* NewPgImp and FetchPgImp: page_table_->Insert(page_id, frame_id).
FTableInsert(t) ==
  /\ At(t, "f_ins")
  /\ table_latch_ = t
  /\ page_table_' = Insert(page_table_, th[t].page_id, th[t].frame_id)
  /\ th' = Goto(t, "ra")
  /\ table_latch_' = Unlock(t)
  /\ UNCHANGED <<pages_, free_list_, next_page_id_, disk, replacer_>>
  /\ TableCallFrame

\* NewPgImp and FetchPgImp: replacer_->RecordAccess(frame_id).
FRecordAccess(t) ==
  /\ At(t, "ra")
  /\ replacer_latch_ = t
  /\ replacer_' = RecordAccess(replacer_, th[t].frame_id)
  /\ accessed' = accessed \cup {th[t].frame_id}
  /\ th' = Goto(t, "se")
  /\ replacer_latch_' = Unlock(t)
  /\ UNCHANGED <<bpm_vars, abort>>
  /\ ReplacerCallFrame

\* NewPgImp and FetchPgImp: replacer_->SetEvictable(frame_id, false); return page.
FSetEvictable(t) ==
  /\ At(t, "se")
  /\ replacer_latch_ = t
  /\ replacer_' = SetEvictable(replacer_, th[t].frame_id, FALSE)
  /\ th' = ReturnPage(t, th[t].frame_id)
  /\ replacer_latch_' = Unlock(t)
  /\ UNCHANGED <<bpm_vars, abort, accessed>>
  /\ ReplacerCallFrame

\* UnpinPgImp: page_table_->Find(page_id, frame_id).
UFind(t) ==
  /\ At(t, "u_find")
  /\ table_latch_ = t
  /\ LET hit == Find(page_table_, th[t].page_id)
     IN th' = IF hit.found
                THEN [th EXCEPT ![t].frame_id = hit.value, ![t].pc = "u_pin"]
                ELSE Return(t, FALSE)
  /\ table_latch_' = Unlock(t)
  /\ UNCHANGED <<bpm_vars, replacer_>>
  /\ TableCallFrame

\* UnpinPgImp: the pin count and the dirty flag.
UPin(t) ==
  /\ At(t, "u_pin")
  /\ LET page == pages_[th[t].frame_id]
     IN IF page.pin_count_ <= 0
          THEN th' = Return(t, FALSE) /\ UNCHANGED pages_
          ELSE /\ pages_' = [pages_ EXCEPT ![th[t].frame_id].pin_count_ = @ - 1,
                                           ![th[t].frame_id].is_dirty_ =
                                             UnpinDirty(@, th[t].is_dirty)]
               /\ th' = IF UnpinReleases(page.pin_count_ - 1)
                          THEN Goto(t, "u_se")
                          ELSE Return(t, TRUE)
  /\ UNCHANGED <<free_list_, page_table_, next_page_id_, disk, replacer_>>
  /\ PoolStepFrame

\* UnpinPgImp: replacer_->SetEvictable(frame_id, true).
USetEvictable(t) ==
  /\ At(t, "u_se")
  /\ replacer_latch_ = t
  /\ replacer_' = SetEvictable(replacer_, th[t].frame_id, TRUE)
  /\ th' = Return(t, TRUE)
  /\ replacer_latch_' = Unlock(t)
  /\ UNCHANGED <<bpm_vars, abort, accessed>>
  /\ ReplacerCallFrame

\* DeletePgImp: page_table_->Find(page_id, frame_id).
DFind(t) ==
  /\ At(t, "d_find")
  /\ table_latch_ = t
  /\ LET hit == Find(page_table_, th[t].page_id)
     IN th' = IF hit.found
                THEN [th EXCEPT ![t].frame_id = hit.value, ![t].pc = "d_pin"]
                ELSE Return(t, TRUE)
  /\ table_latch_' = Unlock(t)
  /\ UNCHANGED <<bpm_vars, replacer_>>
  /\ TableCallFrame

\* DeletePgImp: the pinned check and the write-back.
DPin(t) ==
  /\ At(t, "d_pin")
  /\ LET page == pages_[th[t].frame_id]
     IN IF DeleteBlocked(page.pin_count_)
          THEN th' = Return(t, FALSE) /\ UNCHANGED disk
          ELSE /\ disk' = IF page.is_dirty_
                            THEN WritePage(disk, th[t].page_id, page.data_)
                            ELSE disk
               /\ th' = Goto(t, "d_ptrm")
  /\ UNCHANGED <<pages_, free_list_, page_table_, next_page_id_, replacer_>>
  /\ PoolStepFrame

\* DeletePgImp: page_table_->Remove(page_id).
DTableRemove(t) ==
  /\ At(t, "d_ptrm")
  /\ table_latch_ = t
  /\ page_table_' = HTRemove(page_table_, th[t].page_id).t
  /\ th' = Goto(t, "d_rrm")
  /\ table_latch_' = Unlock(t)
  /\ UNCHANGED <<pages_, free_list_, next_page_id_, disk, replacer_>>
  /\ TableCallFrame

\* DeletePgImp: replacer_->Remove(frame_id).
DReplacerRemove(t) ==
  /\ At(t, "d_rrm")
  /\ replacer_latch_ = t
  /\ IF ~RemoveAssertOK(replacer_, th[t].frame_id)
       THEN abort' = TRUE /\ UNCHANGED <<replacer_, th, replacer_latch_>>
       ELSE /\ replacer_' = Remove(replacer_, th[t].frame_id)
            /\ th' = Goto(t, "d_reset")
            /\ replacer_latch_' = Unlock(t)
            /\ UNCHANGED abort
  /\ UNCHANGED <<bpm_vars, accessed>>
  /\ ReplacerCallFrame

\* DeletePgImp: reset the frame and append it to the free list.
DReset(t) ==
  /\ At(t, "d_reset")
  /\ pages_' = [pages_ EXCEPT ![th[t].frame_id] = Page(INVALID_PAGE_ID, 0, FALSE, 0)]
  /\ free_list_' = Append(free_list_, th[t].frame_id)
  /\ th' = Return(t, TRUE)
  /\ UNCHANGED <<page_table_, next_page_id_, disk, replacer_>>
  /\ PoolStepFrame

\* FlushPgImp: if (page_id == INVALID_PAGE_ID) return false.
FlCheck(t) ==
  /\ At(t, "fl_check")
  /\ th' = IF th[t].page_id = INVALID_PAGE_ID THEN Return(t, FALSE) ELSE Goto(t, "fl_find")
  /\ UNCHANGED <<bpm_vars, replacer_>>
  /\ PoolStepFrame

\* FlushPgImp: page_table_->Find(page_id, frame_id).
FlFind(t) ==
  /\ At(t, "fl_find")
  /\ table_latch_ = t
  /\ LET hit == Find(page_table_, th[t].page_id)
     IN th' = IF hit.found
                THEN [th EXCEPT ![t].frame_id = hit.value, ![t].pc = "fl_write"]
                ELSE Return(t, FALSE)
  /\ table_latch_' = Unlock(t)
  /\ UNCHANGED <<bpm_vars, replacer_>>
  /\ TableCallFrame

\* FlushPgImp: WritePage and the dirty flag.
FlWrite(t) ==
  /\ At(t, "fl_write")
  /\ disk' = WritePage(disk, th[t].page_id, pages_[th[t].frame_id].data_)
  /\ pages_' = [pages_ EXCEPT ![th[t].frame_id].is_dirty_ = FALSE]
  /\ th' = Return(t, TRUE)
  /\ UNCHANGED <<free_list_, page_table_, next_page_id_, replacer_>>
  /\ PoolStepFrame

\* FlushAllPgsImp: the loop over the frames.
FlAll(t) ==
  /\ At(t, "fa_loop")
  /\ LET st == FlushAllFrom([pages |-> pages_, disk |-> disk, io |-> <<>>], 0)
     IN pages_' = st.pages /\ disk' = st.disk
  /\ th' = Return(t, TRUE)
  /\ UNCHANGED <<free_list_, page_table_, next_page_id_, replacer_>>
  /\ PoolStepFrame

\* The handles after thread t returns from its method.
HandlesAfter(t) ==
  LET c == th[t]
  IN IF c.op \in {"FetchPage", "NewPage"}
       THEN IF c.page = INVALID_FRAME_ID THEN handles
            ELSE handles \cup {<<t, c.page, c.page_id, c.op>>}
       ELSE IF c.op = "UnpinPage" /\ c.ret
         THEN {h \in handles : ~(h[1] = t /\ h[3] = c.page_id)}
         ELSE handles

\* The return of every pool method: the guard releases latch_.
UnlockPool(t) ==
  /\ At(t, "unlock")
  /\ bpm_latch_' = Unlock(t)
  /\ handles' = HandlesAfter(t)
  /\ th' = [th EXCEPT ![t] = ThIdle]
  /\ UNCHANGED <<bpm_vars, replacer_, abort, accessed, last, table_latch_, replacer_latch_,
                 conc_ops, conc_others>>

\* A step of thread t inside FetchPage, UnpinPage, DeletePage or NewPage.
ThreadStep(t) ==
  \/ LockPool(t)
  \/ LockTable(t)
  \/ LockReplacer(t)
  \/ FFind(t)
  \/ FPin(t)
  \/ FFrame(t)
  \/ \E order \in Orders(DOMAIN replacer_.frame_map_) : FEvict(t, order)
  \/ FWriteBack(t)
  \/ FTableRemove(t)
  \/ FRead(t)
  \/ NInit(t)
  \/ FTableInsert(t)
  \/ FRecordAccess(t)
  \/ FSetEvictable(t)
  \/ UFind(t)
  \/ UPin(t)
  \/ USetEvictable(t)
  \/ DFind(t)
  \/ DPin(t)
  \/ DTableRemove(t)
  \/ DReplacerRemove(t)
  \/ DReset(t)
  \/ UnlockPool(t)

\* A step of thread t inside FlushPage or FlushAllPages.
ThreadStepMore(t) ==
  \/ FlCheck(t)
  \/ FlFind(t)
  \/ FlWrite(t)
  \/ FlAll(t)

\* Thread t calls FetchPage, UnpinPage, DeletePage or NewPage.
StartConc(t) ==
  \/ \E page_id \in PageIds : StartFetch(t, page_id)
  \/ \E page_id \in PageIds, is_dirty \in BOOLEAN : StartUnpin(t, page_id, is_dirty)
  \/ \E page_id \in PageIds : StartDelete(t, page_id)
  \/ StartNewPage(t)

\* Thread t calls FlushPage or FlushAllPages.
StartMore(t) ==
  \/ \E page_id \in PageIds \cup {INVALID_PAGE_ID} : StartFlush(t, page_id)
  \/ StartFlushAll(t)

NextConc ==
  \/ conc_ops < MaxConcOps /\ \E t \in Threads : StartConc(t)
  \/ \E t \in Threads : ThreadStep(t)

\* Threads calling FetchPage, UnpinPage, DeletePage and NewPage.
SpecConc == Init /\ [][NextConc]_vars

NextLocks ==
  \/ conc_ops < MaxLockOps /\ \E t \in Threads : StartConc(t) \/ StartMore(t)
  \/ \E t \in Threads : ThreadStep(t) \/ ThreadStepMore(t)

\* The owners of the latches and the threads' positions: what a step of a
\* thread changes.
sched == <<bpm_latch_, table_latch_, replacer_latch_, [t \in Threads |-> th[t].pc]>>

\* Threads calling every public method; a thread that can take a step
\* eventually takes one.
SpecLocks ==
  Init /\ [][NextLocks]_vars
       /\ WF_sched(\E t \in Threads : ThreadStep(t) \/ ThreadStepMore(t))

(***************************************************************************)
(* Vocabulary of the claims.                                               *)
(***************************************************************************)
\* The replacer holds frame f as evictable.
Evictable(f) ==
  f \in DOMAIN replacer_.frame_map_ /\ replacer_.frame_map_[f].evictable

\* The page table resolves page id p; FrameOf(p) is the frame it resolves to.
Resident(p) == Find(page_table_, p).found
FrameOf(p) == Find(page_table_, p).value

AllPageIds == PageIds \cup {INVALID_PAGE_ID}

\* The disk writes among the events of a call, in order.
IsWrite(e) == e[1] = "write"
Writes(io) == SelectSeq(io, IsWrite)
\* The call evicted a victim.
Evicted(io) == io # <<>> /\ io[1][1] = "evict"

\* The step is a call of new_page, or of fetch_page(p).
NewPageStep == \E order \in Orders(DOMAIN replacer_.frame_map_) : NewPgImp(order)
FetchPageStep(p) == \E order \in Orders(DOMAIN replacer_.frame_map_) : FetchPgImp(p, order)

\* Nothing the pool owns changes.
PoolUnchanged == UNCHANGED <<pages_, free_list_, page_table_, next_page_id_, disk, replacer_>>

(***************************************************************************)
(* C1: a frame with pin_count > 0 is not evictable in the replacer, and no *)
(* operation changes the page id of a frame while its pin_count > 0 (it is *)
(* neither an eviction victim nor reset by delete_page).                   *)
(***************************************************************************)
C1_PinnedFrameStable ==
  [][\A f \in Frames :
       /\ pages_[f].pin_count_ > 0 =>
            /\ ~Evictable(f)
            /\ pages_'[f].page_id_ = pages_[f].page_id_
       /\ pages_'[f].pin_count_ > 0 => ~Evictable(f)']_vars

\* An eviction has just taken a victim while another frame stayed pinned.
C1_Witness ==
  /\ Evicted(last.io)
  /\ \E f \in Frames \ {last.ret} : pages_[f].pin_count_ > 0

(***************************************************************************)
(* C2: every occupied frame's page id is resolved by the page table to     *)
(* that frame, and no two frames hold the same page id.                    *)
(***************************************************************************)
C2_OccupiedFrameMappedOnce ==
  \A f \in Frames :
    pages_[f].page_id_ # INVALID_PAGE_ID =>
      /\ Resident(pages_[f].page_id_)
      /\ FrameOf(pages_[f].page_id_) = f
      /\ \A g \in Frames \ {f} : pages_[g].page_id_ # pages_[f].page_id_

(***************************************************************************)
(* C3: whenever the page table resolves a page id p to a frame f, frame f  *)
(* holds page p.                                                           *)
(***************************************************************************)
C3_TablePointsAtHolder ==
  \A p \in AllPageIds :
    Resident(p) => FrameOf(p) \in Frames /\ pages_[FrameOf(p)].page_id_ = p

\* The table resolves a page after an eviction replaced another one.
C3_Witness ==
  /\ Evicted(last.io)
  /\ \E p, q \in PageIds : p # q /\ Resident(p) /\ Resident(q)

(***************************************************************************)
(* C4, as claimed: for every frame ever passed to record_access,           *)
(* pin_count = 0 iff the replacer holds the frame as evictable.            *)
(***************************************************************************)
C4_Original ==
  \A f \in accessed : pages_[f].pin_count_ = 0 <=> Evictable(f)

(***************************************************************************)
(* C4, amended: for every frame that currently has a replacer record,      *)
(* pin_count = 0 iff the replacer holds the frame as evictable.            *)
(***************************************************************************)
C4_PinZeroIffEvictable ==
  \A f \in DOMAIN replacer_.frame_map_ : pages_[f].pin_count_ = 0 <=> Evictable(f)

\* One frame is unpinned and evictable while another is pinned and is not.
C4_Witness ==
  \E f, g \in DOMAIN replacer_.frame_map_ :
    /\ pages_[f].pin_count_ = 0 /\ Evictable(f)
    /\ pages_[g].pin_count_ > 0 /\ ~Evictable(g)

(***************************************************************************)
(* C5: evict returns the LRU-K victim among the evictable frames, whatever *)
(* the iteration order of the frame map: if some evictable frame has fewer *)
(* than k recorded accesses, the one of those whose first recorded access  *)
(* is earliest; otherwise the evictable frame whose k-th most recent       *)
(* access is earliest.  The accesses are those of hist, the full history.  *)
(***************************************************************************)
EvictableFrames == {f \in DOMAIN replacer_.frame_map_ : replacer_.frame_map_[f].evictable}
FewerThanK == {f \in EvictableFrames : Len(hist[f]) < replacer_.k_}
FirstAccess(f) == hist[f][1]
KthMostRecentAccess(f) == hist[f][Len(hist[f]) - replacer_.k_ + 1]

LRUKVictim ==
  IF FewerThanK # {}
    THEN CHOOSE f \in FewerThanK : \A g \in FewerThanK : FirstAccess(f) <= FirstAccess(g)
    ELSE CHOOSE f \in EvictableFrames :
           \A g \in EvictableFrames : KthMostRecentAccess(f) <= KthMostRecentAccess(g)

\* C5: in every reachable replacer state with an evictable frame, evict
\* succeeds and returns LRUKVictim, for every iteration order of the frame map.
C5_EvictReturnsLRUKVictim ==
  (~abort /\ EvictableFrames # {}) =>
    \A order \in Orders(DOMAIN replacer_.frame_map_) :
      LET ev == Evict(replacer_, order)
      IN ev.ok /\ ev.frame_id = LRUKVictim

\* Evict has just returned a frame, passing over an evictable frame with k or
\* more accesses and one with fewer than k.
C5_Witness ==
  /\ last.op = "Evict"
  /\ last.ret # INVALID_FRAME_ID
  /\ FewerThanK # {}
  /\ EvictableFrames \ FewerThanK # {}
  /\ \E f \in EvictableFrames : Len(hist[f]) > replacer_.k_

(***************************************************************************)
(* C6: when new_page or fetch_page evicts a dirty frame of page p, the     *)
(* call writes p exactly once, with the frame's contents, before it reads  *)
(* anything into the frame, and a fetch_page(p) that follows returns those *)
(* contents; when the evicted frame is clean the call writes nothing.      *)
(***************************************************************************)
\* The call of this step evicted the frame it returns; what the eviction wrote.
EvictionWritesBack ==
  (Evicted(last'.io) /\ (NewPageStep \/ \E p \in PageIds : FetchPageStep(p))) =>
    LET victim == pages_[last'.ret]
    IN IF victim.is_dirty_
         THEN /\ Writes(last'.io) = <<<<"write", victim.page_id_, victim.data_>>>>
              /\ last'.io[2] = <<"write", victim.page_id_, victim.data_>>
              /\ disk' = [disk EXCEPT ![victim.page_id_] = victim.data_]
         ELSE Writes(last'.io) = <<>> /\ disk' = disk

\* The last call evicted page p and wrote it back; this step fetches p.
FetchAfterWriteBack ==
  \A p \in PageIds :
    (/\ Evicted(last.io)
     /\ last.io[1][2] = p
     /\ Writes(last.io) # <<>>
     /\ FetchPageStep(p)
     /\ last'.ret # INVALID_FRAME_ID) =>
       pages_'[last'.ret].data_ = last.io[1][3]

\* C6: every step writes back an evicted dirty victim exactly once and nothing
\* for a clean one, and a fetch right after the write-back returns what was written.
C6_DirtyEvictionWritesOnce == [][EvictionWritesBack /\ FetchAfterWriteBack]_vars

(***************************************************************************)
(* C7, as claimed: with the free list empty and no evictable frame,        *)
(* new_page and fetch_page fail and change no pool state.                  *)
(***************************************************************************)
NoFrameLeft == free_list_ = <<>> /\ \A f \in Frames : ~Evictable(f)

\* C7, as claimed: with no frame left, every new_page and fetch_page step fails
\* and leaves the pool unchanged.
C7_Original ==
  [][(NoFrameLeft /\ ~abort /\ (NewPageStep \/ \E p \in PageIds : FetchPageStep(p))) =>
       (/\ last'.op \in {"NewPage", "FetchPage"}
        /\ last'.ret = INVALID_FRAME_ID
        /\ PoolUnchanged)]_vars

(***************************************************************************)
(* C7, amended: with the free list empty and no evictable frame, new_page  *)
(* and fetch_page of a page that is not resident fail and change no pool   *)
(* state.                                                                  *)
(***************************************************************************)
C7_NoFrameFailsCleanly ==
  [][(NoFrameLeft /\ ~abort /\
        (NewPageStep \/ \E p \in PageIds : ~Resident(p) /\ FetchPageStep(p))) =>
       (/\ ~abort'
        /\ last'.op \in {"NewPage", "FetchPage"}
        /\ last'.ret = INVALID_FRAME_ID
        /\ last'.io = <<>>
        /\ PoolUnchanged)]_vars

\* A call has just failed with every frame pinned.
C7_Witness ==
  /\ last.op \in {"NewPage", "FetchPage"}
  /\ last.ret = INVALID_FRAME_ID
  /\ \A f \in Frames : pages_[f].pin_count_ > 0

(***************************************************************************)
(* C8: unpin_page(p, is_dirty) returns false and changes nothing when p is *)
(* not resident or its pin_count is 0; otherwise it returns true, lowers   *)
(* pin_count by one, sets dirty to (old dirty or is_dirty), and makes the  *)
(* frame evictable exactly when pin_count reached 0.                       *)
(***************************************************************************)
UnpinContract(p, is_dirty) ==
  /\ last'.op = "UnpinPage"
  /\ IF ~Resident(p) \/ pages_[FrameOf(p)].pin_count_ = 0
    THEN last'.ret = FALSE /\ PoolUnchanged
    ELSE LET f == FrameOf(p)
         IN /\ last'.ret = TRUE
            /\ pages_' = [pages_ EXCEPT ![f].pin_count_ = @ - 1,
                                        ![f].is_dirty_ = @ \/ is_dirty]
            /\ Evictable(f)' <=> (pages_'[f].pin_count_ = 0)
            /\ \A g \in Frames \ {f} : Evictable(g)' <=> Evictable(g)
            /\ UNCHANGED <<free_list_, page_table_, next_page_id_, disk>>

\* C8: every unpin_page step meets UnpinContract.
C8_UnpinContract ==
  [][\A p \in PageIds, is_dirty \in BOOLEAN :
       UnpinPgImp(p, is_dirty) => UnpinContract(p, is_dirty)]_vars

\* An unpin has just succeeded on a frame that stays dirty and still pinned,
\* next to a frame that is unpinned, dirty and evictable.
C8_Witness ==
  /\ last.op = "UnpinPage"
  /\ last.ret = TRUE
  /\ \E f \in Frames : pages_[f].pin_count_ = 0 /\ pages_[f].is_dirty_ /\ Evictable(f)
  /\ \E f \in Frames : pages_[f].pin_count_ > 0 /\ pages_[f].is_dirty_ /\ ~Evictable(f)

(***************************************************************************)
(* C9: delete_page(p) returns false and changes nothing when p is resident *)
(* and pinned; returns true and changes no frame, table, replacer or free  *)
(* list when p is not resident; and when p is resident with pin_count 0 it *)
(* writes the page back if dirty, unmaps p, drops the frame's replacer     *)
(* record, resets the frame, appends it to the free list and returns true. *)
(***************************************************************************)
DeleteContract(p) ==
  /\ ~abort'
  /\ last'.op = "DeletePage"
  /\ IF ~Resident(p)
    THEN last'.ret = TRUE /\ last'.io = <<>> /\ PoolUnchanged
    ELSE LET f == FrameOf(p)
         IN IF pages_[f].pin_count_ > 0
              THEN last'.ret = FALSE /\ last'.io = <<>> /\ PoolUnchanged
              ELSE /\ last'.ret = TRUE
                   /\ IF pages_[f].is_dirty_
                        THEN /\ last'.io = <<<<"write", p, pages_[f].data_>>>>
                             /\ disk' = [disk EXCEPT ![p] = pages_[f].data_]
                        ELSE last'.io = <<>> /\ disk' = disk
                   /\ ~Resident(p)'
                   /\ \A q \in AllPageIds \ {p} :
                        Find(page_table_', q) = Find(page_table_, q)
                   /\ DOMAIN replacer_'.frame_map_ = (DOMAIN replacer_.frame_map_) \ {f}
                   /\ \A g \in Frames \ {f} : Evictable(g)' <=> Evictable(g)
                   /\ pages_' = [pages_ EXCEPT ![f] = Page(INVALID_PAGE_ID, 0, FALSE, 0)]
                   /\ free_list_' = Append(free_list_, f)
                   /\ next_page_id_' = next_page_id_

\* C9: every delete_page step meets DeleteContract.
C9_DeleteContract == [][\A p \in PageIds : DeletePgImp(p) => DeleteContract(p)]_vars

\* A delete has just written back and freed a dirty page.
C9_Witness ==
  /\ last.op = "DeletePage"
  /\ last.ret = TRUE
  /\ Writes(last.io) # <<>>
  /\ free_list_ # <<>>
  /\ pages_[free_list_[Len(free_list_)]].page_id_ = INVALID_PAGE_ID

(***************************************************************************)
(* C10: after any sequence of insert and remove calls (splits and          *)
(* directory doublings included) find(k) agrees with the reference map for *)
(* every key k, every key is stored once, and remove(k) returns true iff k *)
(* was present.                                                            *)
(***************************************************************************)
RefFind(key) ==
  IF key \in DOMAIN ref THEN [found |-> TRUE, value |-> ref[key]]
  ELSE [found |-> FALSE, value |-> 0]

\* Number of pairs stored in the buckets of the table.
RECURSIVE StoredFrom(_, _)
StoredFrom(t, b) ==
  IF b > Len(t.buckets) THEN 0 ELSE Len(t.buckets[b].kv_pairs_) + StoredFrom(t, b + 1)

AgreesWithRef ==
  /\ \A key \in Keys : Find(ht, key) = RefFind(key)
  /\ StoredFrom(ht, 1) = Cardinality(DOMAIN ref)

\* C10: after every step the table agrees with the reference map and stores
\* each key once; remove and find return what the reference map says.
C10_FindAgreesWithRef ==
  [][/\ AgreesWithRef'
     /\ \A key \in Keys : HTRemoveCall(key) => (ht_last'.ret <=> key \in DOMAIN ref)
     /\ \A key \in Keys : HTFindCall(key) =>
          (ht_last'.ret <=> key \in DOMAIN ref) /\
          (key \in DOMAIN ref => ht_last'.value = ref[key])]_vars

\* An insert has just left a table whose directory doubled twice and whose
\* buckets split, holding three keys or more with values that differ.
C10_Witness ==
  /\ ht_last.op = "Insert"
  /\ ht.global_depth_ >= 2
  /\ ht.num_buckets_ >= 3
  /\ Cardinality(DOMAIN ref) >= 3
  /\ \E j, k \in DOMAIN ref : ref[j] # ref[k]

(***************************************************************************)
(* C11: in every reachable state of the hash table the directory has       *)
(* 2^global_depth slots, every bucket's local depth is at most the global  *)
(* depth, and two slots that reference the same bucket agree on the low    *)
(* local_depth bits of their indices (splits included).                    *)
(***************************************************************************)
C11_DirectoryWellFormed ==
  /\ Len(ht.dir_) = Pow2(ht.global_depth_)
  /\ \A b \in 1 .. Len(ht.buckets) : ht.buckets[b].local_depth_ <= ht.global_depth_
  /\ \A i, j \in 1 .. Len(ht.dir_) :
       ht.dir_[i] = ht.dir_[j] =>
         (i - 1) % Pow2(ht.buckets[ht.dir_[i]].local_depth_) =
         (j - 1) % Pow2(ht.buckets[ht.dir_[i]].local_depth_)

\* After splits the directory has four slots, two of which share a bucket
\* shallower than the directory next to a bucket as deep as it.
C11_Witness ==
  /\ ht_last.op = "Insert"
  /\ ht.global_depth_ = 2
  /\ \E i, j \in 1 .. Len(ht.dir_) :
       i # j /\ ht.dir_[i] = ht.dir_[j] /\ ht.buckets[ht.dir_[i]].local_depth_ = 1
  /\ \E i \in 1 .. Len(ht.dir_) : ht.buckets[ht.dir_[i]].local_depth_ = 2

(***************************************************************************)
(* C12: num_buckets equals the number of distinct buckets the directory    *)
(* references, before and after every call (so each bucket a split adds    *)
(* receives a slot), and remove leaves the bucket count unchanged.         *)
(***************************************************************************)
ReferencedBuckets(t) == {t.dir_[i] : i \in 1 .. Len(t.dir_)}

NumBucketsMatches(t) ==
  /\ t.num_buckets_ = Cardinality(ReferencedBuckets(t))
  /\ ReferencedBuckets(t) = 1 .. Len(t.buckets)

\* C12: every step starts and ends with num_buckets equal to the number of
\* referenced buckets, and a remove step keeps num_buckets.
C12_NumBucketsCountsReferenced ==
  [][/\ NumBucketsMatches(ht) /\ NumBucketsMatches(ht')
     /\ \A key \in Keys : HTRemoveCall(key) => ht'.num_buckets_ = ht.num_buckets_]_vars

\* A remove has just emptied a bucket of a table that split into three.
C12_Witness ==
  /\ ht_last.op = "Remove"
  /\ ht_last.ret = TRUE
  /\ ht.num_buckets_ = 3
  /\ \E b \in 1 .. Len(ht.buckets) : ht.buckets[b].kv_pairs_ = <<>>

(***************************************************************************)
(* C13: in every reachable replacer state size() is the number of records  *)
(* marked evictable and at most num_frames; set_evictable changes it by    *)
(* one exactly when the flag of an existing record changes, an evict that  *)
(* returns a frame and a remove of an existing record lower it by one, and *)
(* a failed evict or a remove of an unknown frame leave it alone.          *)
(***************************************************************************)
SizeCountsEvictable ==
  /\ Size(replacer_) = Cardinality(EvictableFrames)
  /\ Size(replacer_) <= replacer_.replacer_size_

SetEvictableDelta(frame_id, set_evictable) ==
  IF frame_id \notin DOMAIN replacer_.frame_map_ THEN 0
  ELSE IF replacer_.frame_map_[frame_id].evictable = set_evictable THEN 0
  ELSE IF set_evictable THEN 1 ELSE 0 - 1

\* C13: every step starts and ends with size() counting the evictable
\* records, and changes size() by what the call and the state prescribe.
C13_SizeCountsEvictable ==
  [][/\ SizeCountsEvictable /\ SizeCountsEvictable'
     /\ \A frame_id \in ReplFrameArgs, set_evictable \in BOOLEAN :
          (ReplSetEvictable(frame_id, set_evictable) /\ ~abort') =>
            Size(replacer_') = Size(replacer_) + SetEvictableDelta(frame_id, set_evictable)
     /\ \A frame_id \in ReplFrameArgs :
          (ReplRemove(frame_id) /\ ~abort') =>
            Size(replacer_') = Size(replacer_) -
              (IF frame_id \in DOMAIN replacer_.frame_map_ THEN 1 ELSE 0)
     /\ \A order \in Orders(DOMAIN replacer_.frame_map_) :
          (ReplEvict(order) /\ ~abort') =>
            Size(replacer_') = Size(replacer_) -
              (IF last'.ret # INVALID_FRAME_ID THEN 1 ELSE 0)]_vars

\* A set_evictable has just left two records evictable next to one that is not.
C13_Witness ==
  /\ last.op = "SetEvictable"
  /\ Size(replacer_) = 2
  /\ DOMAIN replacer_.frame_map_ \ EvictableFrames # {}

(***************************************************************************)
(* C15: a successful new_page returns the old value of next_page_id, which *)
(* it raises by one (a failed call leaves it, and no step lowers it, so no *)
(* id is returned twice); on return the frame holds that id with pin count *)
(* 1 and clean, the page table maps the id to the frame, and the frame is  *)
(* not evictable.                                                          *)
(***************************************************************************)
NewPageContract ==
  /\ last'.op = "NewPage"
  /\ IF last'.ret = INVALID_FRAME_ID
       THEN next_page_id_' = next_page_id_
       ELSE LET f == last'.ret
            IN /\ f \in Frames
               /\ pages_'[f].page_id_ = next_page_id_
               /\ next_page_id_' = next_page_id_ + 1
               /\ pages_'[f].pin_count_ = 1
               /\ ~pages_'[f].is_dirty_
               /\ Find(page_table_', next_page_id_) = [found |-> TRUE, value |-> f]
               /\ f \in DOMAIN replacer_'.frame_map_
               /\ ~replacer_'.frame_map_[f].evictable

\* C15: every new_page step meets NewPageContract, and no step lowers
\* next_page_id.
C15_NewPageFreshId ==
  [][/\ next_page_id_' >= next_page_id_
     /\ (NewPageStep /\ ~abort') => NewPageContract]_vars

\* A new_page has just succeeded by evicting a page, after an earlier one.
C15_Witness ==
  /\ last.op = "NewPage"
  /\ Evicted(last.io)
  /\ next_page_id_ >= 2
  /\ pages_[last.ret].page_id_ = next_page_id_ - 1

(***************************************************************************)
(* C16: every frame is either on the free list, exactly once, empty        *)
(* (INVALID page id, pin count 0), mapped to by no page-table entry and    *)
(* without a replacer record, or in use: not on the free list and known to *)
(* the replacer.                                                           *)
(***************************************************************************)
FreeListCount(f) == Cardinality({i \in 1 .. Len(free_list_) : free_list_[i] = f})

FrameIsFree(f) ==
  /\ FreeListCount(f) = 1
  /\ pages_[f].page_id_ = INVALID_PAGE_ID
  /\ pages_[f].pin_count_ = 0
  /\ \A p \in AllPageIds : ~(Resident(p) /\ FrameOf(p) = f)
  /\ f \notin DOMAIN replacer_.frame_map_

FrameInUse(f) ==
  /\ FreeListCount(f) = 0
  /\ f \in DOMAIN replacer_.frame_map_

\* C16: in every reachable state each frame is free or in use, never both
\* and never neither.
C16_FrameFreeOrInUse ==
  /\ \A i \in 1 .. Len(free_list_) : free_list_[i] \in Frames
  /\ \A f \in Frames : FrameIsFree(f) \/ FrameInUse(f)

\* A delete has just returned a frame to the free list while the other frame
\* is in use.
C16_Witness ==
  /\ last.op = "DeletePage"
  /\ last.ret = TRUE
  /\ \E f, g \in Frames : FrameIsFree(f) /\ FrameInUse(g)
  /\ disk # [p \in PageIds |-> 0]

(***************************************************************************)
(* C17: flush_all_pages writes exactly the frames that hold a page and are *)
(* dirty, each once with its contents, clears their dirty flags and        *)
(* changes no pin count, page-table entry, replacer record or free list;   *)
(* a flush_all_pages right after another writes nothing.                   *)
(***************************************************************************)
DirtyFrames ==
  {f \in Frames : pages_[f].page_id_ # INVALID_PAGE_ID /\ pages_[f].is_dirty_}

WriteOf(f) == <<"write", pages_[f].page_id_, pages_[f].data_>>

FlushAllContract ==
  /\ last'.op = "FlushAllPages"
  /\ Len(last'.io) = Cardinality(DirtyFrames)
  /\ \A f \in DirtyFrames : \E i \in 1 .. Len(last'.io) : last'.io[i] = WriteOf(f)
  /\ \A i \in 1 .. Len(last'.io) : \E f \in DirtyFrames : last'.io[i] = WriteOf(f)
  /\ pages_' = [f \in Frames |->
                  IF f \in DirtyFrames THEN [pages_[f] EXCEPT !.is_dirty_ = FALSE]
                  ELSE pages_[f]]
  /\ \A p \in PageIds :
       IF \E f \in DirtyFrames : pages_[f].page_id_ = p
         THEN \E f \in DirtyFrames : pages_[f].page_id_ = p /\ disk'[p] = pages_[f].data_
         ELSE disk'[p] = disk[p]
  /\ UNCHANGED <<free_list_, page_table_, next_page_id_, replacer_>>
  /\ last.op = "FlushAllPages" => (last'.io = <<>> /\ disk' = disk /\ pages_' = pages_)

\* C17: every flush_all_pages step meets FlushAllContract.
C17_FlushAllWritesDirtyOnce == [][FlushAllPgsImp => FlushAllContract]_vars

\* A flush_all_pages has just written two dirty pages, one of them pinned.
C17_Witness ==
  /\ last.op = "FlushAllPages"
  /\ Len(last.io) = 2
  /\ DirtyFrames = {}
  /\ \E f \in Frames : pages_[f].pin_count_ > 0
  /\ \E f \in Frames : pages_[f].pin_count_ = 0 /\ Evictable(f)

(***************************************************************************)
(* C19: Insert into a full bucket splits and retries.  With hashes that    *)
(* differ within HashBits bits it breaks out of the loop after at most     *)
(* HashBits splits, and the key is then found with its value; with more    *)
(* than bucket_size keys of one and the same hash every retry fails and    *)
(* the loop goes on splitting, as far as the model follows it.             *)
(***************************************************************************)
\* Insert is in its loop with a new key while bucket_size keys of the same
\* hash are stored.
SameHashOverfull ==
  /\ ins.pc \in {"try", "split"}
  /\ ht.hash_ = "constant"
  /\ ins.key \notin DOMAIN ref
  /\ Cardinality(DOMAIN ref) >= ht.bucket_size_

\* C19: termination with the key findable for hashes that differ, endless
\* splitting for more than bucket_size keys of one hash.
C19_InsertSplitsUntilDone ==
  /\ []((ins.pc = "done") =>
          Find(ht, ins.key) = [found |-> TRUE, value |-> ins.value])
  /\ []((ht.hash_ = "int") => ins.splits <= HashBits)
  /\ ((ht.hash_ = "int" /\ ins.pc = "try") ~> (ins.pc = "done"))
  /\ [][SameHashOverfull => (SameHashOverfull' /\ (InsertTry => ins'.pc = "split"))]_vars
  /\ (SameHashOverfull ~> (ins.pc = "split" /\ ins.splits = MaxSplits))

\* An Insert has just finished after two splits in a row, the second of which
\* doubled the directory.
C19_Witness ==
  /\ ins.pc = "done"
  /\ ins.splits = 2
  /\ ht.hash_ = "int"
  /\ ht.global_depth_ >= 2

(***************************************************************************)
(* C20: set_evictable on a frame without a replacer record changes nothing *)
(* in the replacer; a record appears only through record_access and starts *)
(* non-evictable; record_access on an existing record keeps its evictable  *)
(* flag; and record_access never changes size().                           *)
(***************************************************************************)
Known(f) == f \in DOMAIN replacer_.frame_map_

\* C20: every set_evictable step on an unknown frame and every
\* record_access step behave as stated, and only record_access adds a record.
C20_OnlyRecordAccessCreates ==
  [][/\ \A frame_id \in ReplFrameArgs, set_evictable \in BOOLEAN :
          (ReplSetEvictable(frame_id, set_evictable) /\ ~abort' /\ ~Known(frame_id)) =>
            replacer_' = replacer_
     /\ \A frame_id \in ReplFrameArgs :
          (ReplRecordAccess(frame_id) /\ ~abort') =>
            /\ DOMAIN replacer_'.frame_map_ = (DOMAIN replacer_.frame_map_) \cup {frame_id}
            /\ replacer_'.frame_map_[frame_id].evictable =
                 (Known(frame_id) /\ replacer_.frame_map_[frame_id].evictable)
            /\ Size(replacer_') = Size(replacer_)
     /\ (DOMAIN replacer_'.frame_map_ \ DOMAIN replacer_.frame_map_ # {}) =>
          \E frame_id \in ReplFrameArgs : ReplRecordAccess(frame_id)]_vars

\* A set_evictable has just been called on an empty replacer whose earlier
\* records are gone.
C20_Witness ==
  /\ last.op = "SetEvictable"
  /\ replacer_.frame_map_ = <<>>
  /\ replacer_.current_timestamp_ >= 2
  /\ Size(replacer_) = 0

(***************************************************************************)
(* C14: concurrent fetch_page(p) and delete_page(p) are serialised by the   *)
(* pool's latch_, and no handle outlives its frame.                         *)
(***************************************************************************)
\* Thread t is past the lock at the top of its method and has not returned.
InPool(t) == th[t].pc \notin {"idle", "lock"}

\* Handle h is being given back: its thread's UnpinPage has taken the pin.
GivingBack(h) ==
  /\ th[h[1]].op = "UnpinPage"
  /\ th[h[1]].page_id = h[3]
  /\ th[h[1]].pc \in {"u_se", "unlock"}

\* The frame of handle h has not been reset or put on the free list.
HandleSafe(h) ==
  /\ pages_[h[2]].page_id_ # INVALID_PAGE_ID
  /\ FreeListCount(h[2]) = 0

\* Only the thread that owns the pool's latch_ changes the pool or the
\* replacer, and no other thread moves in that step.
SerialStep ==
  (<<bpm_vars, replacer_>>' # <<bpm_vars, replacer_>>) =>
    /\ bpm_latch_ \in Threads
    /\ bpm_latch_' = bpm_latch_
    /\ \A u \in Threads \ {bpm_latch_} : th'[u] = th[u]

\* What holds when FetchPage(p) of thread t returns a page: its frame holds
\* p, read from disk, the table resolves p to it, it is pinned, and it is
\* neither free nor evictable.
FetchOutcome(t) ==
  LET p == th[t].page_id
      f == th[t].page
  IN f # INVALID_FRAME_ID =>
       /\ pages_[f].page_id_ = p
       /\ Resident(p) /\ FrameOf(p) = f
       /\ pages_[f].pin_count_ >= 1
       /\ pages_[f].data_ = disk[p]
       /\ FreeListCount(f) = 0
       /\ ~Evictable(f)

\* What holds when DeletePage(p) of thread t returns: false with p still
\* resident in the frame it was found in, pinned; or true with p not
\* resident and the frame it was found in reset and free.
DeleteOutcome(t) ==
  LET p == th[t].page_id
      f == th[t].frame_id
  IN IF th[t].ret
       THEN /\ ~Resident(p)
            /\ f # INVALID_FRAME_ID => FrameIsFree(f)
       ELSE /\ Resident(p) /\ FrameOf(p) = f
            /\ pages_[f].page_id_ = p
            /\ pages_[f].pin_count_ >= 1

\* C14: at most the owner of the pool's latch_ is inside a method, and only it
\* changes the pool, so the calls take effect in the order they acquired the
\* latch; a FetchPage that returns a page leaves it resident and pinned, a
\* DeletePage returns false with the page still resident in the same pinned
\* frame or true with the frame reset and free; and the frame of a handle
\* that FetchPage returned is not reset or put on the free list before the
\* handle is given back.
C14_FetchDeleteSerialised ==
  /\ [](\A t \in Threads : InPool(t) => bpm_latch_ = t)
  /\ [][SerialStep]_vars
  /\ [](\A t \in Threads :
          th[t].pc = "unlock" =>
            /\ th[t].op = "FetchPage" => FetchOutcome(t)
            /\ th[t].op = "DeletePage" => DeleteOutcome(t))
  /\ [](\A h \in handles : h[4] = "FetchPage" => GivingBack(h) \/ HandleSafe(h))

\* FetchPage(p) has found p resident and unpinned and is about to pin it while
\* another thread's DeletePage(p) waits for the pool's latch_.
C14_Witness ==
  \E t, u \in Threads :
    /\ th[t].op = "FetchPage" /\ th[t].pc = "f_pin"
    /\ pages_[th[t].frame_id].pin_count_ = 0
    /\ th[u].op = "DeletePage" /\ th[u].pc = "lock"
    /\ th[u].page_id = th[t].page_id

(***************************************************************************)
(* C18: the order in which the three mutexes are taken.                     *)
(***************************************************************************)
\* Thread t owns the page table's latch_ or the replacer's.
HoldsInner(t) == table_latch_ = t \/ replacer_latch_ = t

\* The step is thread t acquiring the pool's latch_.
TakesPool(t) == bpm_latch_ # t /\ bpm_latch_' = t

\* C18: a thread owns the page table's or the replacer's latch_ only while it
\* owns the pool's, never owns both of them, and never acquires the pool's
\* while owning one of them; and every call a thread has started returns
\* (unless an assertion ends the process).
C18_LockOrderNoDeadlock ==
  /\ [](\A t \in Threads : HoldsInner(t) => bpm_latch_ = t)
  /\ [](\A t \in Threads : ~(table_latch_ = t /\ replacer_latch_ = t))
  /\ [][\A t \in Threads : TakesPool(t) => ~HoldsInner(t)]_latches
  /\ \A t \in Threads : (th[t].pc # "idle") ~> (th[t].pc = "idle" \/ abort)

\* A thread is inside the replacer's Evict, called from a method of the pool,
\* while every other thread waits for the pool's latch_.
C18_Witness ==
  \E t \in Threads :
    /\ th[t].pc = "f_evict"
    /\ replacer_latch_ = t /\ bpm_latch_ = t /\ table_latch_ = NoThread
    /\ \A u \in Threads \ {t} : th[u].pc = "lock"

(***************************************************************************)
(* C21: the pool never trips an assertion of the replacer.                  *)
(***************************************************************************)
\* The frame ids the pool can hand to the replacer: those in the page table,
\* on the free list and in the replacer's own records.
PoolFrameIds ==
  {FrameOf(p) : p \in {q \in AllPageIds : Resident(q)}}
    \cup {free_list_[i] : i \in 1 .. Len(free_list_)}
    \cup DOMAIN replacer_.frame_map_

\* The frame DeletePgImp hands to Remove: that of a resident, unpinned page.
RemovableFrames ==
  {FrameOf(p) : p \in {q \in AllPageIds : Resident(q) /\ ~DeleteBlocked(pages_[FrameOf(q)].pin_count_)}}

\* C21: no assertion of the replacer has failed; every frame id the pool can
\* pass to RecordAccess, SetEvictable and Remove lies in [0, pool_size); the
\* frame of every page delete_page would remove is evictable; and whenever the
\* replacer's size is positive Evict finds a victim, whatever the iteration
\* order of frame_map_.
C21_NoReplacerAssertion ==
  /\ ~abort
  /\ replacer_.replacer_size_ = pool_size_
  /\ \A f \in PoolFrameIds : FrameIdInRange(replacer_, f)
  /\ \A f \in RemovableFrames : Evictable(f) /\ RemoveAssertOK(replacer_, f)
  /\ \A order \in Orders(DOMAIN replacer_.frame_map_) : EvictAssertOK(replacer_, order)

\* delete_page has just taken an evictable frame out of the replacer and put
\* it on the free list while the replacer still holds another evictable frame.
C21_Witness ==
  /\ last.op = "DeletePage" /\ last.ret = TRUE
  /\ \E i \in 1 .. Len(free_list_) :
       free_list_[i] \in accessed /\ free_list_[i] \notin DOMAIN replacer_.frame_map_
  /\ replacer_.curr_size_ > 0

(***************************************************************************)
(* C22: where the hash table keeps its pairs.                               *)
(***************************************************************************)
\* The positions <<bucket, index>> of the stored pairs of table t.
PairPositions(t) ==
  UNION {{<<b, i>> : i \in 1 .. Len(t.buckets[b].kv_pairs_)} : b \in 1 .. Len(t.buckets)}

KeyAt(t, pos) == t.buckets[pos[1]].kv_pairs_[pos[2]][1]

\* C22: every stored pair is in the bucket that the directory slot of its
\* key's hash references, no two stored pairs have the same key, and no bucket
\* holds more than bucket_size pairs; in every state, those between a split
\* and the retry of the insertion included.
C22_PairsWherePointed ==
  /\ \A pos \in PairPositions(ht) : ht.dir_[IndexOf(ht, KeyAt(ht, pos)) + 1] = pos[1]
  /\ \A pos, qos \in PairPositions(ht) : pos # qos => KeyAt(ht, pos) # KeyAt(ht, qos)
  /\ \A b \in 1 .. Len(ht.buckets) : Len(ht.buckets[b].kv_pairs_) <= ht.bucket_size_

\* SplitBucket has just moved pairs of a full bucket to the new bucket and
\* left others behind; the insertion has not been retried yet.
C22_Witness ==
  /\ ins.pc = "try" /\ ins.splits >= 1
  /\ ht.buckets[Len(ht.buckets)].kv_pairs_ # <<>>
  /\ Len(ht.buckets[Len(ht.buckets)].kv_pairs_) < ht.bucket_size_
  /\ \E b \in 1 .. Len(ht.buckets) - 1 :
       /\ ht.buckets[b].kv_pairs_ # <<>>
       /\ Len(ht.buckets[b].kv_pairs_) + Len(ht.buckets[Len(ht.buckets)].kv_pairs_)
            = ht.bucket_size_

====
